---- MODULE Spec2Model ----
(***************************************************************************)
(* Model of src/App/src/App.vue: a Vue component that keeps a list of      *)
(* Post documents in a local PouchDB database, synchronised live with a    *)
(* remote CouchDB database.  Every handler of the component is an action;  *)
(* a handler that awaits a library call is split at the await: the part    *)
(* before it puts a call in `pending`, the part after it runs when the     *)
(* call settles (the call reads or writes the database at that moment).    *)
(***************************************************************************)
EXTENDS Integers, Sequences, FiniteSets, Bags, TLC

\* ------------------------------------------------------------------ bounds
\* Library calls awaited at the same time.
MaxPending == 2
\* Revisions a document goes through.
MaxGen == 2
\* Sync handles that exist at the same time.
MaxSyncs == 2
\* postFactory draws the likes in 0..MaxInitLikes (the code: in 0..99).
MaxInitLikes == 1
\* Posts created in one run.
NumPosts == 2

\* ------------------------------------------------------------------ values
DesignId == 0                       \* "_design/idx-..." sorts before "post_..."
PostIds == 1..NumPosts
Ids == {DesignId} \cup PostIds

\* Titles and queries are strings, modelled as sequences of characters.
TitleOf(id) ==
    IF id = DesignId THEN <<>>
    ELSE IF id % 2 = 1 THEN <<"A", "b">> ELSE <<"b">>

\* What the user types: nothing, a space, a pattern with a wildcard (it matches
\* "Ab" alone), a pattern to trim (it matches both titles), no pattern at all.
Queries ==
    { <<>>, <<" ">>, <<"a", ".">>, <<" ", "B">>, <<"(">> }

\* Code units, for the ordering of strings (JavaScript compares UTF-16 units).
CharCode(c) ==
    CASE c = " " -> 32 [] c = "(" -> 40 [] c = "." -> 46
      [] c = "A" -> 65 [] c = "B" -> 66 [] c = "a" -> 97 [] c = "b" -> 98

Lower(c) == CASE c = "A" -> "a" [] c = "B" -> "b" [] OTHER -> c

\* a < b for strings, as the library's collation of two strings does.
RECURSIVE StrLess(_, _)
StrLess(a, b) ==
    IF b = <<>> THEN FALSE
    ELSE IF a = <<>> THEN TRUE
    ELSE IF CharCode(Head(a)) # CharCode(Head(b))
         THEN CharCode(Head(a)) < CharCode(Head(b))
         ELSE StrLess(Tail(a), Tail(b))

\* String.prototype.trim
RECURSIVE TrimLeft(_)
TrimLeft(s) ==
    IF s # <<>> /\ Head(s) = " " THEN TrimLeft(Tail(s)) ELSE s

RECURSIVE TrimRight(_)
TrimRight(s) ==
    IF s # <<>> /\ s[Len(s)] = " " THEN TrimRight(SubSeq(s, 1, Len(s) - 1)) ELSE s

Trim(s) == TrimRight(TrimLeft(s))

\* RegExp(query, "i"): the constructor throws on a pattern that is no regular
\* expression (an unclosed group).
RegExpValid(p) == \A i \in 1..Len(p) : p[i] # "("

\* One pattern character against one character, with the "i" flag.
CharMatches(pc, c) == pc = "." \/ Lower(pc) = Lower(c)

\* RegExp(p, "i").test(s): the pattern matches somewhere in s.
RegExpTest(p, s) ==
    \E off \in 0..(Len(s) - Len(p)) :
        \A j \in 1..Len(p) : CharMatches(p[j], s[off + j])

\* ------------------------------------------------------------------ documents
\* A revision is 2 * generation + site; the site (0 here, 1 the remote side)
\* stands for the hash that orders two revisions of the same generation.
LocalSite == 0
RemoteSite == 1
Gen(rev) == rev \div 2
NextRev(rev, site) == 2 * (Gen(rev) + 1) + site

\* interface Post, with the tombstone flag the database keeps.
Missing(id) ==
    [_id |-> id, _rev |-> 0, deleted |-> FALSE, type |-> "none",
     title |-> <<>>, likes |-> 0]

Live(d) == d._rev > 0 /\ ~d.deleted

ToPost(d) ==
    [_id |-> d._id, _rev |-> d._rev, type |-> d.type, title |-> d.title,
     likes |-> d.likes]

NoPost == ToPost(Missing(-1))

postFactoryNeg(id, lk) ==
    [_id |-> id, _rev |-> 0, type |-> "Post", title |-> TitleOf(id),
     likes |-> lk - 1]

\* postFactory: a new Post without _rev; lk is the random draw.
postFactory(id, lk) ==
    [_id |-> id, _rev |-> 0, type |-> "Post", title |-> TitleOf(id),
     likes |-> lk]

\* The design document createIndex stores in the database.
DesignDoc ==
    [_id |-> DesignId, _rev |-> NextRev(0, LocalSite), deleted |-> FALSE,
     type |-> "none", title |-> <<>>, likes |-> 0]

\* db.put(doc) is accepted when doc._rev is the current revision, or when doc
\* has no _rev and the document does not exist (or is deleted); else 409.
PutAccepted(db, doc) ==
    IF doc._rev = 0 THEN ~Live(db[doc._id]) ELSE doc._rev = db[doc._id]._rev

PutResult(db, doc, site) ==
    [db EXCEPT ![doc._id] =
        [_id |-> doc._id, _rev |-> NextRev(db[doc._id]._rev, site),
         deleted |-> FALSE, type |-> doc.type, title |-> doc.title,
         likes |-> doc.likes]]

\* db.remove(id, rev) is accepted when rev is the current revision of a live
\* document; it leaves a tombstone.
RemoveAccepted(db, id, rev) == Live(db[id]) /\ rev = db[id]._rev

RemoveResult(db, id, site) ==
    [db EXCEPT ![id] =
        [@ EXCEPT !._rev = NextRev(@, site), !.deleted = TRUE]]

\* A write needs a generation below the bound of the model.
CanWrite(db, id) == Gen(db[id]._rev) < MaxGen

\* allDocs({include_docs: true, descending: true}): the live documents, the
\* design document included, by descending _id.
RECURSIVE DescFrom(_, _)
DescFrom(db, i) ==
    IF i < 0 THEN <<>>
    ELSE (IF Live(db[i]) THEN <<ToPost(db[i])>> ELSE <<>>) \o DescFrom(db, i - 1)

AllDocs(db) == DescFrom(db, NumPosts)

OnlyPostsUnfiltered(seq) == seq

\* .filter(doc => doc.type === 'Post')
RECURSIVE OnlyPosts(_)
OnlyPosts(seq) ==
    IF seq = <<>> THEN <<>>
    ELSE (IF Head(seq).type = "Post" THEN <<Head(seq)>> ELSE <<>>)
         \o OnlyPosts(Tail(seq))

\* .filter(d => d._id !== id)
RECURSIVE WithoutId(_, _)
WithoutId(seq, id) ==
    IF seq = <<>> THEN <<>>
    ELSE (IF Head(seq)._id # id THEN <<Head(seq)>> ELSE <<>>)
         \o WithoutId(Tail(seq), id)

\* The sort of find: [{type: 'desc'}, {title: 'desc'}, {likes: 'desc'}], rows of
\* equal key by _id.  The selector leaves one type, so the title decides first.
\* KeyLess(a, b): a comes after b in the result.
KeyLess(a, b) ==
    IF a.title # b.title THEN StrLess(a.title, b.title)
    ELSE IF a.likes # b.likes THEN a.likes < b.likes
    ELSE a._id < b._id

RECURSIVE SortDesc(_)
SortDesc(S) ==
    IF S = {} THEN <<>>
    ELSE LET m == CHOOSE x \in S : \A y \in S \ {x} : KeyLess(y, x)
         IN  <<m>> \o SortDesc(S \ {m})

SelectedCaseSensitive(doc, query) ==
    /\ doc.type = "Post"
    /\ \E off \in 0..(Len(doc.title) - Len(query)) :
          \A j \in 1..Len(query) : query[j] = "." \/ query[j] = doc.title[off + j]

\* The selector of find: {type: 'Post', title: {$regex: RegExp(query, "i")}}.
Selected(doc, query) == doc.type = "Post" /\ RegExpTest(query, doc.title)

\* localDb.find({selector, sort}).docs
Find(db, query) ==
    SortDesc({ToPost(db[i]) : i \in {j \in Ids : Live(db[j]) /\ Selected(db[j], query)}})

\* ------------------------------------------------------------------ state
VARIABLES
    initPc,        \* where initDatabase stands: start, createIndex, done, failed
    localDb,       \* localDb is not null
    remoteDb,      \* remoteDb is not null
    localStore,    \* the documents of the local database, by _id
    remoteStore,   \* the documents of the remote database, by _id
    documents,     \* ref documents: the displayed list
    isOnline,      \* ref isOnline
    searchQuery,   \* ref searchQuery
    searchStatus,  \* ref searchStatus
    syncHandler,   \* the handle startReplication stored last, 0 for null
    liveSyncs,     \* the sync handles that are replicating (not cancelled)
    pending,       \* the library calls awaited by a handler, a bag
    last           \* what the last step was

vars ==
    <<initPc, localDb, remoteDb, localStore, remoteStore, documents, isOnline,
      searchQuery, searchStatus, syncHandler, liveSyncs, pending, last>>

\* The values of searchStatus.
StatusEmpty == [kind |-> "empty", n |-> 0, query |-> <<>>]
StatusAll(n) == [kind |-> "all", n |-> n, query |-> <<>>]
StatusFound(n, query) == [kind |-> "found", n |-> n, query |-> query]
StatusInitError == [kind |-> "initError", n |-> 0, query |-> <<>>]
StatusSearchError == [kind |-> "searchError", n |-> 0, query |-> <<>>]

\* The awaited calls.
AllDocsCall == [op |-> "allDocs", post |-> NoPost, query |-> <<>>]
FindCall(query) == [op |-> "find", post |-> NoPost, query |-> query]
LikeCall(post) == [op |-> "like", post |-> post, query |-> <<>>]
RemoveCall(post) == [op |-> "remove", post |-> post, query |-> <<>>]
PutCall(post) == [op |-> "put", post |-> post, query |-> <<>>]
BulkCall == [op |-> "bulkDocs", post |-> NoPost, query |-> <<>>]

Calls(op) == {c \in BagToSet(pending) : c.op = op}
Add(bag, call) == bag (+) SetToBag({call})
Settle(call) == pending (-) SetToBag({call})
Room == BagCardinality(pending) < MaxPending

\* The databases of a first run: both empty.
EmptyStore == [id \in Ids |-> Missing(id)]

Init ==
    /\ initPc = "start"
    /\ localDb = FALSE
    /\ remoteDb = FALSE
    /\ localStore = EmptyStore
    /\ remoteStore = EmptyStore
    /\ documents = <<>>
    /\ isOnline = TRUE
    /\ searchQuery = <<>>
    /\ searchStatus = StatusEmpty
    /\ syncHandler = 0
    /\ liveSyncs = {}
    /\ pending = EmptyBag
    /\ last = "init"

Mounted == initPc # "start"

\* ------------------------------------------------------------------ replication
\* A handle PouchDB.sync has not given out, or whose object is garbage.
FreeHandles == (1..MaxSyncs) \ (liveSyncs \cup {syncHandler})
NewHandle == CHOOSE h \in FreeHandles : \A g \in FreeHandles : h <= g

startReplicationNoCancel ==
    IF ~localDb \/ ~remoteDb
    THEN UNCHANGED <<syncHandler, liveSyncs>>
    ELSE /\ FreeHandles # {}
         /\ syncHandler' = NewHandle
         /\ liveSyncs' = liveSyncs \cup {NewHandle}

startReplicationOnce ==
    IF ~localDb \/ ~remoteDb \/ syncHandler # 0
    THEN UNCHANGED <<syncHandler, liveSyncs>>
    ELSE /\ FreeHandles # {}
         /\ syncHandler' = NewHandle
         /\ liveSyncs' = liveSyncs \cup {NewHandle}

\* startReplication: returns without both databases; cancels the handle it
\* holds; stores the handle of a new live sync.
startReplication ==
    IF ~localDb \/ ~remoteDb
    THEN UNCHANGED <<syncHandler, liveSyncs>>
    ELSE /\ FreeHandles # {}
         /\ syncHandler' = NewHandle
         /\ liveSyncs' = (liveSyncs \ {syncHandler}) \cup {NewHandle}

toggleOfflineNoRestart ==
    /\ Mounted
    /\ isOnline' = ~isOnline
    /\ liveSyncs' = IF isOnline' THEN liveSyncs ELSE liveSyncs \ {syncHandler}
    /\ UNCHANGED syncHandler
    /\ last' = IF isOnline' THEN "online" ELSE "offline"
    /\ UNCHANGED <<initPc, localDb, remoteDb, localStore, remoteStore, documents,
                   searchQuery, searchStatus, pending>>

\* toggleOffline (the button of the status bar).
toggleOffline ==
    /\ Mounted
    /\ isOnline' = ~isOnline
    /\ IF isOnline' THEN startReplication
       ELSE /\ liveSyncs' = liveSyncs \ {syncHandler}
            /\ UNCHANGED syncHandler
    /\ last' = IF isOnline' THEN "online" ELSE "offline"
    /\ UNCHANGED <<initPc, localDb, remoteDb, localStore, remoteStore, documents,
                   searchQuery, searchStatus, pending>>

\* ------------------------------------------------------------------ initDatabase
\* onMounted -> initDatabase, up to its first await: both databases are opened
\* and createIndex is called.
InitOpen ==
    /\ initPc = "start"
    /\ remoteDb' = TRUE
    /\ localDb' = TRUE
    /\ initPc' = "createIndex"
    /\ last' = "open"
    /\ UNCHANGED <<localStore, remoteStore, documents, isOnline, searchQuery,
                   searchStatus, syncHandler, liveSyncs, pending>>

\* A PouchDB constructor throws: the remote one (nothing is assigned) or the
\* local one (remoteDb is assigned); the catch sets the status.
InitOpenFail ==
    /\ initPc = "start"
    /\ \E r \in BOOLEAN : remoteDb' = r
    /\ localDb' = FALSE
    /\ initPc' = "failed"
    /\ searchStatus' = StatusInitError
    /\ last' = "openFail"
    /\ UNCHANGED <<localStore, remoteStore, documents, isOnline, searchQuery,
                   syncHandler, liveSyncs, pending>>

\* createIndex resolves (the design document is in the database): replication
\* is started and fetchDocuments is called.
CreateIndexDone ==
    /\ initPc = "createIndex"
    /\ Room
    /\ localStore' = IF Live(localStore[DesignId]) THEN localStore
                     ELSE [localStore EXCEPT ![DesignId] = DesignDoc]
    /\ startReplication
    /\ pending' = Add(pending, AllDocsCall)
    /\ initPc' = "done"
    /\ last' = "indexed"
    /\ UNCHANGED <<localDb, remoteDb, remoteStore, documents, isOnline,
                   searchQuery, searchStatus>>

CreateIndexFailStartsSync ==
    /\ initPc = "createIndex"
    /\ initPc' = "failed"
    /\ startReplication
    /\ searchStatus' = StatusInitError
    /\ last' = "indexFail"
    /\ UNCHANGED <<localDb, remoteDb, localStore, remoteStore, documents,
                   isOnline, searchQuery, pending>>

\* createIndex rejects: the catch sets the status.
CreateIndexFail ==
    /\ initPc = "createIndex"
    /\ initPc' = "failed"
    /\ searchStatus' = StatusInitError
    /\ last' = "indexFail"
    /\ UNCHANGED <<localDb, remoteDb, localStore, remoteStore, documents,
                   isOnline, searchQuery, syncHandler, liveSyncs, pending>>

\* ------------------------------------------------------------------ read
\* fetchDocuments up to its await, on the bag `bag` of calls: with no local
\* database it returns, else it awaits allDocs.
fetchDocuments(bag) ==
    pending' = IF localDb THEN Add(bag, AllDocsCall) ELSE bag

\* allDocs resolves: the Posts among the rows are displayed and counted.
AllDocsDone ==
    /\ Calls("allDocs") # {}
    /\ documents' = OnlyPosts(AllDocs(localStore))
    /\ searchStatus' = StatusAll(Len(documents'))
    /\ pending' = Settle(AllDocsCall)
    /\ last' = "allDocsDone"
    /\ UNCHANGED <<initPc, localDb, remoteDb, localStore, remoteStore, isOnline,
                   searchQuery, syncHandler, liveSyncs>>

\* allDocs rejects: the catch logs.
AllDocsFail ==
    /\ Calls("allDocs") # {}
    /\ pending' = Settle(AllDocsCall)
    /\ last' = "allDocsFail"
    /\ UNCHANGED <<initPc, localDb, remoteDb, localStore, remoteStore, documents,
                   isOnline, searchQuery, searchStatus, syncHandler, liveSyncs>>

\* searchDocuments up to its await, for the value sq of searchQuery, on the
\* bag `bag` of calls; `label` is the step it is part of.
searchDocuments(bag, sq, label) ==
    LET query == Trim(sq) IN
    IF ~localDb
    THEN /\ pending' = bag
         /\ last' = label
         /\ UNCHANGED searchStatus
    ELSE IF query = <<>>
    THEN /\ fetchDocuments(bag)
         /\ last' = label
         /\ UNCHANGED searchStatus
    ELSE IF ~RegExpValid(query)
    THEN /\ pending' = bag
         /\ searchStatus' = StatusSearchError
         /\ last' = "regexpThrow"
    ELSE /\ pending' = Add(bag, FindCall(query))
         /\ last' = label
         /\ UNCHANGED searchStatus

\* The user edits the search field: v-model sets searchQuery, the watcher
\* calls searchDocuments.
SetQuery(q) ==
    /\ Mounted
    /\ Room
    /\ q # searchQuery
    /\ searchQuery' = q
    /\ searchDocuments(pending, q, "watch")
    /\ UNCHANGED <<initPc, localDb, remoteDb, localStore, remoteStore, documents,
                   isOnline, syncHandler, liveSyncs>>

\* find resolves: its documents are displayed and counted.
FindDone(call) ==
    /\ call \in Calls("find")
    /\ documents' = Find(localStore, call.query)
    /\ searchStatus' = StatusFound(Len(documents'), call.query)
    /\ pending' = Settle(call)
    /\ last' = "findDone"
    /\ UNCHANGED <<initPc, localDb, remoteDb, localStore, remoteStore, isOnline,
                   searchQuery, syncHandler, liveSyncs>>

FindFailClearsList(call) ==
    /\ call \in Calls("find")
    /\ documents' = <<>>
    /\ searchStatus' = StatusSearchError
    /\ pending' = Settle(call)
    /\ last' = "findFail"
    /\ UNCHANGED <<initPc, localDb, remoteDb, localStore, remoteStore,
                   isOnline, searchQuery, syncHandler, liveSyncs>>

\* find rejects: the catch sets the status.
FindFail(call) ==
    /\ call \in Calls("find")
    /\ searchStatus' = StatusSearchError
    /\ pending' = Settle(call)
    /\ last' = "findFail"
    /\ UNCHANGED <<initPc, localDb, remoteDb, localStore, remoteStore, documents,
                   isOnline, searchQuery, syncHandler, liveSyncs>>

\* ------------------------------------------------------------------ write
\* { ...post, likes: post.likes + 1 }
Liked(post) == [post EXCEPT !.likes = @ + 1]

\* documents.value[index] = updated, index the first entry with the _id.
RECURSIVE ReplaceFirst(_, _)
ReplaceFirst(seq, updated) ==
    IF seq = <<>> THEN <<>>
    ELSE IF Head(seq)._id = updated._id THEN <<updated>> \o Tail(seq)
    ELSE <<Head(seq)>> \o ReplaceFirst(Tail(seq), updated)

\* The like button of the displayed post i: likePost up to its await.
LikeClick(i) ==
    /\ Mounted
    /\ localDb
    /\ Room
    /\ i \in 1..Len(documents)
    /\ pending' = Add(pending, LikeCall(documents[i]))
    /\ last' = "likeClick"
    /\ UNCHANGED <<initPc, localDb, remoteDb, localStore, remoteStore, documents,
                   isOnline, searchQuery, searchStatus, syncHandler, liveSyncs>>

\* put resolves: the displayed entry is replaced by the object that was put,
\* and with a search in the field searchDocuments is called.
LikeDone(call) ==
    /\ call \in Calls("like")
    /\ PutAccepted(localStore, Liked(call.post))
    /\ CanWrite(localStore, call.post._id)
    /\ localStore' = PutResult(localStore, Liked(call.post), LocalSite)
    /\ documents' = ReplaceFirst(documents, Liked(call.post))
    /\ IF searchQuery # <<>>
       THEN searchDocuments(Settle(call), searchQuery, "likeDone")
       ELSE /\ pending' = Settle(call)
            /\ last' = "likeDone"
            /\ UNCHANGED searchStatus
    /\ UNCHANGED <<initPc, localDb, remoteDb, remoteStore, isOnline, searchQuery,
                   syncHandler, liveSyncs>>

\* put rejects (409: the _rev put is not the current one): the catch logs.
LikeFail(call) ==
    /\ call \in Calls("like")
    /\ ~PutAccepted(localStore, Liked(call.post))
    /\ pending' = Settle(call)
    /\ last' = "likeFail"
    /\ UNCHANGED <<initPc, localDb, remoteDb, localStore, remoteStore, documents,
                   isOnline, searchQuery, searchStatus, syncHandler, liveSyncs>>

\* The delete button of the displayed post i: deletePost up to its await.
DeleteClick(i) ==
    /\ Mounted
    /\ localDb
    /\ Room
    /\ i \in 1..Len(documents)
    /\ pending' = Add(pending, RemoveCall(documents[i]))
    /\ last' = "deleteClick"
    /\ UNCHANGED <<initPc, localDb, remoteDb, localStore, remoteStore, documents,
                   isOnline, searchQuery, searchStatus, syncHandler, liveSyncs>>

DeleteDoneEager(call) ==
    /\ call \in Calls("remove")
    /\ documents' = WithoutId(documents, call.post._id)
    /\ IF RemoveAccepted(localStore, call.post._id, call.post._rev)
          /\ CanWrite(localStore, call.post._id)
       THEN localStore' = RemoveResult(localStore, call.post._id, LocalSite)
       ELSE UNCHANGED localStore
    /\ pending' = Settle(call)
    /\ last' = "removeDone"
    /\ UNCHANGED <<initPc, localDb, remoteDb, remoteStore, isOnline, searchQuery,
                   searchStatus, syncHandler, liveSyncs>>

\* remove resolves: the post leaves the displayed list.
DeleteDone(call) ==
    /\ call \in Calls("remove")
    /\ RemoveAccepted(localStore, call.post._id, call.post._rev)
    /\ CanWrite(localStore, call.post._id)
    /\ localStore' = RemoveResult(localStore, call.post._id, LocalSite)
    /\ documents' = WithoutId(documents, call.post._id)
    /\ pending' = Settle(call)
    /\ last' = "removeDone"
    /\ UNCHANGED <<initPc, localDb, remoteDb, remoteStore, isOnline, searchQuery,
                   searchStatus, syncHandler, liveSyncs>>

\* remove rejects (409 or 404): the catch logs.
DeleteFail(call) ==
    /\ call \in Calls("remove")
    /\ ~RemoveAccepted(localStore, call.post._id, call.post._rev)
    /\ pending' = Settle(call)
    /\ last' = "removeFail"
    /\ UNCHANGED <<initPc, localDb, remoteDb, localStore, remoteStore, documents,
                   isOnline, searchQuery, searchStatus, syncHandler, liveSyncs>>

\* postFactory builds the _id from the clock, so a new _id comes after every
\* _id there is: the posts get the ids 1, 2, ... in the order of their creation.
UsedIds ==
    {id \in PostIds : \/ localStore[id]._rev > 0
                      \/ remoteStore[id]._rev > 0
                      \/ \E call \in BagToSet(pending) : call.post._id = id}

IsNewId(id) == id \in PostIds \ UsedIds /\ \A other \in PostIds : other < id => other \in UsedIds

\* The create button: createNewPost up to its await, the factory drawing the
\* likes.
CreateClick(id, lk) ==
    /\ Mounted
    /\ localDb
    /\ Room
    /\ IsNewId(id)
    /\ pending' = Add(pending, PutCall(postFactory(id, lk)))
    /\ last' = "createClick"
    /\ UNCHANGED <<initPc, localDb, remoteDb, localStore, remoteStore, documents,
                   isOnline, searchQuery, searchStatus, syncHandler, liveSyncs>>

\* put resolves: with an empty search field fetchDocuments is called.
CreateDone(call) ==
    /\ call \in Calls("put")
    /\ PutAccepted(localStore, call.post)
    /\ CanWrite(localStore, call.post._id)
    /\ localStore' = PutResult(localStore, call.post, LocalSite)
    /\ IF searchQuery = <<>>
       THEN fetchDocuments(Settle(call))
       ELSE pending' = Settle(call)
    /\ last' = "createDone"
    /\ UNCHANGED <<initPc, localDb, remoteDb, remoteStore, documents, isOnline,
                   searchQuery, searchStatus, syncHandler, liveSyncs>>

\* put rejects (the database fails): the catch logs.
CreateFail(call) ==
    /\ call \in Calls("put")
    /\ pending' = Settle(call)
    /\ last' = "createFail"
    /\ UNCHANGED <<initPc, localDb, remoteDb, localStore, remoteStore, documents,
                   isOnline, searchQuery, searchStatus, syncHandler, liveSyncs>>

\* The factory button: generateMassData up to its await.  The batch is the
\* posts whose _id the model still has.
GenerateClick ==
    /\ Mounted
    /\ localDb
    /\ Room
    /\ PostIds \ UsedIds # {}
    /\ Calls("bulkDocs") = {}
    /\ pending' = Add(pending, BulkCall)
    /\ last' = "generateClick"
    /\ UNCHANGED <<initPc, localDb, remoteDb, localStore, remoteStore, documents,
                   isOnline, searchQuery, searchStatus, syncHandler, liveSyncs>>

\* bulkDocs resolves: every post of the batch is stored, the factory having
\* drawn the likes of each; with an empty search field fetchDocuments is called.
BulkDone ==
    /\ Calls("bulkDocs") # {}
    /\ \E lk \in [PostIds \ UsedIds -> 0..MaxInitLikes] :
          localStore' =
             [id \in Ids |->
                 IF id \in PostIds \ UsedIds
                 THEN PutResult(localStore, postFactory(id, lk[id]), LocalSite)[id]
                 ELSE localStore[id]]
    /\ IF searchQuery = <<>>
       THEN fetchDocuments(Settle(BulkCall))
       ELSE pending' = Settle(BulkCall)
    /\ last' = "bulkDone"
    /\ UNCHANGED <<initPc, localDb, remoteDb, remoteStore, documents, isOnline,
                   searchQuery, searchStatus, syncHandler, liveSyncs>>

\* bulkDocs rejects: the catch logs.
BulkFail ==
    /\ Calls("bulkDocs") # {}
    /\ pending' = Settle(BulkCall)
    /\ last' = "bulkFail"
    /\ UNCHANGED <<initPc, localDb, remoteDb, localStore, remoteStore, documents,
                   isOnline, searchQuery, searchStatus, syncHandler, liveSyncs>>

\* ------------------------------------------------------------------ the sync
\* Of two revisions of a document the replication keeps the greater.
Winner(a, b) == IF a._rev >= b._rev THEN a ELSE b

SyncChangeAlwaysFetch(id) ==
    /\ liveSyncs # {}
    /\ localStore[id] # remoteStore[id]
    /\ Room
    /\ localStore' = [localStore EXCEPT ![id] = Winner(localStore[id], remoteStore[id])]
    /\ remoteStore' = [remoteStore EXCEPT ![id] = Winner(localStore[id], remoteStore[id])]
    /\ fetchDocuments(pending)
    /\ last' = "change"
    /\ UNCHANGED <<initPc, localDb, remoteDb, documents, isOnline, searchQuery,
                   searchStatus, syncHandler, liveSyncs>>

\* A live sync replicates document id (either direction), and its 'change'
\* handler runs: with an empty search field it calls fetchDocuments.
SyncChange(id) ==
    /\ liveSyncs # {}
    /\ localStore[id] # remoteStore[id]
    /\ searchQuery = <<>> => Room
    /\ localStore' = [localStore EXCEPT ![id] = Winner(localStore[id], remoteStore[id])]
    /\ remoteStore' = [remoteStore EXCEPT ![id] = Winner(localStore[id], remoteStore[id])]
    /\ IF searchQuery = <<>>
       THEN fetchDocuments(pending)
       ELSE UNCHANGED pending
    /\ last' = "change"
    /\ UNCHANGED <<initPc, localDb, remoteDb, documents, isOnline, searchQuery,
                   searchStatus, syncHandler, liveSyncs>>

\* Another client of the remote database creates, likes or deletes a post.
RemoteWrite(id) ==
    /\ CanWrite(remoteStore, id)
    /\ \/ /\ IsNewId(id)
          /\ \E lk \in 0..MaxInitLikes :
                remoteStore' = PutResult(remoteStore, postFactory(id, lk), RemoteSite)
       \/ /\ Live(remoteStore[id])
          /\ remoteStore' =
                PutResult(remoteStore, Liked(ToPost(remoteStore[id])), RemoteSite)
       \/ /\ Live(remoteStore[id])
          /\ remoteStore' = RemoveResult(remoteStore, id, RemoteSite)
    /\ last' = "remoteWrite"
    /\ UNCHANGED <<initPc, localDb, remoteDb, localStore, documents, isOnline,
                   searchQuery, searchStatus, syncHandler, liveSyncs, pending>>

\* ------------------------------------------------------------------ behaviours
\* The user acts when the call of the step before has settled.
Idle == pending = EmptyBag

\* One client, a user who waits for each call to settle: every handler of the
\* component, and the replication of what this client writes.
Next ==
    \/ InitOpen
    \/ InitOpenFail
    \/ CreateIndexDone
    \/ CreateIndexFail
    \/ Idle /\ toggleOffline
    \/ Idle /\ \E q \in Queries : SetQuery(q)
    \/ AllDocsDone
    \/ AllDocsFail
    \/ \E call \in Calls("find") : FindDone(call)
    \/ \E call \in Calls("find") : FindFail(call)
    \/ Idle /\ \E i \in 1..NumPosts : LikeClick(i)
    \/ \E call \in Calls("like") : LikeDone(call)
    \/ \E call \in Calls("like") : LikeFail(call)
    \/ Idle /\ \E i \in 1..NumPosts : DeleteClick(i)
    \/ \E call \in Calls("remove") : DeleteDone(call)
    \/ \E call \in Calls("remove") : DeleteFail(call)
    \/ Idle /\ \E id \in PostIds, lk \in 0..MaxInitLikes : CreateClick(id, lk)
    \/ \E call \in Calls("put") : CreateDone(call)
    \/ \E call \in Calls("put") : CreateFail(call)
    \/ \E id \in Ids : SyncChange(id)

Spec == Init /\ [][Next]_vars

\* The start of the component and the sync button, at any moment, with the
\* searches and reads of a user who creates no post: calls overlap.
NextSync ==
    \/ InitOpen
    \/ InitOpenFail
    \/ CreateIndexDone
    \/ CreateIndexFail
    \/ toggleOffline
    \/ \E q \in Queries : SetQuery(q)
    \/ AllDocsDone
    \/ AllDocsFail
    \/ \E call \in Calls("find") : FindDone(call)
    \/ \E call \in Calls("find") : FindFail(call)
    \/ \E id \in Ids : SyncChange(id)

SpecSync == Init /\ [][NextSync]_vars

\* The posts of a user who creates, likes and deletes, and searches with one
\* query, while the replication transfers nothing.
WriteQueries == { <<>>, <<"b">> }

NextWrite ==
    \/ InitOpen
    \/ CreateIndexDone
    \/ Idle /\ \E q \in WriteQueries : SetQuery(q)
    \/ AllDocsDone
    \/ \E call \in Calls("find") : FindDone(call)
    \/ Idle /\ \E i \in 1..NumPosts : LikeClick(i)
    \/ \E call \in Calls("like") : LikeDone(call)
    \/ \E call \in Calls("like") : LikeFail(call)
    \/ Idle /\ \E i \in 1..NumPosts : DeleteClick(i)
    \/ \E call \in Calls("remove") : DeleteDone(call)
    \/ \E call \in Calls("remove") : DeleteFail(call)
    \/ Idle /\ \E id \in PostIds, lk \in 0..MaxInitLikes : CreateClick(id, lk)
    \/ \E call \in Calls("put") : CreateDone(call)
    \/ \E call \in Calls("put") : CreateFail(call)

SpecWrite == Init /\ [][NextWrite]_vars

\* The searches of a user who creates and deletes posts, with every query and
\* with calls that fail, while the replication transfers nothing.
NextSearch ==
    \/ InitOpen
    \/ CreateIndexDone
    \/ Idle /\ \E q \in Queries : SetQuery(q)
    \/ AllDocsDone
    \/ AllDocsFail
    \/ \E call \in Calls("find") : FindDone(call)
    \/ \E call \in Calls("find") : FindFail(call)
    \/ Idle /\ \E i \in 1..NumPosts : DeleteClick(i)
    \/ \E call \in Calls("remove") : DeleteDone(call)
    \/ Idle /\ \E id \in PostIds, lk \in 0..MaxInitLikes : CreateClick(id, lk)
    \/ \E call \in Calls("put") : CreateDone(call)

SpecSearch == Init /\ [][NextSearch]_vars

\* Two clients and one post: this client creates and likes it and switches the
\* sync, another one writes to the remote database.  The library is fair: a
\* live sync with something to replicate replicates it, and an awaited call
\* settles.
NextLive ==
    \/ InitOpen
    \/ CreateIndexDone
    \/ CreateIndexFail
    \/ Idle /\ toggleOffline
    \/ AllDocsDone
    \/ Idle /\ CreateClick(1, 0)
    \/ \E call \in Calls("put") : CreateDone(call)
    \/ Idle /\ LikeClick(1)
    \/ \E call \in Calls("like") : LikeDone(call)
    \/ \E call \in Calls("like") : LikeFail(call)
    \/ \E id \in Ids : SyncChange(id)
    \/ RemoteWrite(1)

LiveSpec ==
    /\ Init
    /\ [][NextLive]_vars
    /\ \A id \in Ids : WF_vars(SyncChange(id))
    /\ WF_vars(AllDocsDone)
    /\ WF_vars(\E call \in Calls("put") : CreateDone(call))
    /\ WF_vars(\E call \in Calls("like") : LikeDone(call) \/ LikeFail(call))

\* The list of a user who only reads and searches, at any moment, while another
\* client writes one post and the live sync brings it: calls overlap.
NextChange ==
    \/ InitOpen
    \/ CreateIndexDone
    \/ \E q \in WriteQueries : SetQuery(q)
    \/ AllDocsDone
    \/ \E call \in Calls("find") : FindDone(call)
    \/ \E id \in Ids : SyncChange(id)
    \/ RemoteWrite(1)

SpecChange == Init /\ [][NextChange]_vars

\* A user who, once the index is there, creates posts and types in the search
\* field without waiting for the reads to complete: calls overlap and settle in
\* any order.
NextRace ==
    \/ InitOpen
    \/ CreateIndexDone
    \/ initPc = "done" /\ \E q \in Queries : SetQuery(q)
    \/ AllDocsDone
    \/ \E call \in Calls("find") : FindDone(call)
    \/ initPc = "done" /\ Idle /\ \E id \in PostIds : CreateClick(id, 0)
    \/ \E call \in Calls("put") : CreateDone(call)

SpecRace == Init /\ [][NextRace]_vars

\* A user who, once the index is there, types in the search field (spaces too)
\* and creates posts one by one or with the factory, waiting for each call,
\* while the live sync replicates them.
NextBlank ==
    \/ InitOpen
    \/ CreateIndexDone
    \/ initPc = "done" /\ Idle /\ \E q \in Queries : SetQuery(q)
    \/ AllDocsDone
    \/ \E call \in Calls("find") : FindDone(call)
    \/ initPc = "done" /\ Idle /\ \E id \in PostIds : CreateClick(id, 0)
    \/ \E call \in Calls("put") : CreateDone(call)
    \/ initPc = "done" /\ Idle /\ GenerateClick
    \/ BulkDone
    \/ BulkFail
    \/ \E id \in Ids : SyncChange(id)

SpecBlank == Init /\ [][NextBlank]_vars

\* ------------------------------------------------------------------ claims
\* The displayed entries, as a set.
Displayed == {documents[i] : i \in 1..Len(documents)}

\* The live documents of the local database of type 'Post'.
LocalPosts == {ToPost(localStore[id]) : id \in {i \in Ids : Live(localStore[i]) /\ localStore[i].type = "Post"}}

\* C1: whenever isOnline is false (the status bar shows OFFLINE), no live
\* replication is active, for any interleaving of toggleOffline with the
\* running initDatabase.
C1_OfflineMeansNoSync == ~isOnline => liveSyncs = {}

\* C10: at most one live replication is active: every sync handle other than
\* the one stored in syncHandler has been cancelled.
C10_AtMostOneSync == liveSyncs \subseteq {syncHandler} /\ Cardinality(liveSyncs) <= 1

\* startReplication, called by initDatabase, has replaced the live handle that
\* toggleOffline started before the index was there.
C10_Witness == last = "indexed" /\ isOnline /\ syncHandler = 2 /\ liveSyncs = {2}

\* C4: the like counter of every Post, created by postFactory and modified by
\* likePost alone, is a non-negative integer: in the database, in the
\* displayed list and in the calls that carry a post.
C4_LikesNonNegative ==
    /\ \A id \in PostIds : localStore[id].likes \in Nat
    /\ \A d \in Displayed : d.likes \in Nat
    /\ \A call \in BagToSet(pending) : call.post.likes \in Nat

\* A post that the factory gave no like has been liked.
C4_Witness ==
    \E id \in PostIds :
        /\ Live(localStore[id])
        /\ Gen(localStore[id]._rev) = 2
        /\ localStore[id].likes = 1

\* C7: when fetchDocuments completes, the displayed list holds all and only the
\* local documents of type 'Post' (not the design document of the index), by
\* descending _id, and searchStatus reports their number.
C7_FetchShowsAllPosts ==
    last = "allDocsDone" =>
        /\ Displayed = LocalPosts
        /\ \A i, j \in 1..Len(documents) : i < j => documents[i]._id > documents[j]._id
        /\ searchStatus.kind = "all"
        /\ searchStatus.n = Cardinality(LocalPosts)

\* fetchDocuments has displayed two posts, and left out the design document and a
\* deleted post.
C7_Witness ==
    /\ last = "allDocsDone"
    /\ Live(localStore[DesignId])
    /\ Len(documents) >= 1
    /\ \E id \in PostIds : localStore[id].deleted

\* C9: deletePost takes a post off the display only when remove succeeded.  When
\* the _rev of the call is the current one of a live document, the document is
\* deleted in the database and the displayed list loses that post and nothing
\* else; otherwise the displayed list and the database stay as they are.
C9_DeleteOnlyOnSuccess ==
    [][\A call \in Calls("remove") :
          pending' = Settle(call) =>
             IF Live(localStore[call.post._id])
                /\ localStore[call.post._id]._rev = call.post._rev
             THEN /\ localStore'[call.post._id].deleted
                  /\ \A id \in Ids \ {call.post._id} : localStore'[id] = localStore[id]
                  /\ documents' = SelectSeq(documents, LAMBDA d : d._id # call.post._id)
             ELSE /\ localStore' = localStore
                  /\ documents' = documents]_vars

\* A post was removed while the other displayed post, liked before, shows a
\* _rev that is no longer the current one.
C9_Witness ==
    /\ last = "removeDone"
    /\ Len(documents) = 1
    /\ Live(localStore[documents[1]._id])
    /\ documents[1]._rev # localStore[documents[1]._id]._rev
    /\ \E id \in PostIds : localStore[id].deleted

\* C5: for a query that is not empty once trimmed, when searchDocuments
\* completes the displayed list is exactly the local documents of type 'Post'
\* whose title the query matches without regard to case: none is missing, none
\* is shown twice, nothing else is shown.
C5_SearchShowsMatches ==
    last = "findDone" =>
        /\ Trim(searchQuery) # <<>>
        /\ Displayed = {d \in LocalPosts : RegExpTest(Trim(searchQuery), d.title)}
        /\ Len(documents) = Cardinality(Displayed)

\* A search has displayed one of two posts: the one whose title matches when
\* case is ignored.
C5_Witness ==
    /\ last = "findDone"
    /\ searchQuery = <<"a", ".">>
    /\ Cardinality(LocalPosts) = 2
    /\ Len(documents) = 1
    /\ documents[1].title = <<"A", "b">>

\* C6: after searchDocuments completes, the displayed list is in descending
\* order of likes, as the status message says.
C6_SortedByLikes ==
    last = "findDone" =>
        \A i, j \in 1..Len(documents) : i < j => documents[i].likes >= documents[j].likes

\* The steps in which searchDocuments fails: find rejects, or RegExp throws on
\* the query the user typed.
SearchFails ==
    \/ \E call \in Calls("find") : FindFail(call)
    \/ \E q \in Queries : SetQuery(q) /\ Trim(q) # <<>> /\ ~RegExpValid(Trim(q))

\* C8: when searchDocuments fails, searchStatus becomes the search-error
\* message and the displayed list is left as it was; the handler ends (its call
\* is settled, no other call is started).
C8_SearchErrorKeepsList ==
    [][SearchFails =>
          /\ searchStatus' = StatusSearchError
          /\ documents' = documents
          /\ BagCardinality(pending') <= BagCardinality(pending)]_vars

\* find was rejected while posts were displayed, and they still are.
C8_Witness ==
    /\ last = "findFail"
    /\ searchStatus = StatusSearchError
    /\ Len(documents) = 2

\* C3: each like of a displayed post, awaited before the next one, raises the
\* stored like count of that post by exactly one (so n likes in a row raise it
\* by n), online or offline, with or without a search.  Stated for the likes
\* made offline: no sync is live, initDatabase has completed, and the post of
\* the call is displayed with the like count the database holds.
C3_EachLikeAddsOne ==
    [][\A call \in Calls("like") :
          /\ LikeDone(call) \/ LikeFail(call)
          /\ initPc = "done"
          /\ ~isOnline
          /\ liveSyncs = {}
          /\ call.post \in Displayed
          /\ Live(localStore[call.post._id])
          /\ localStore[call.post._id].likes = call.post.likes
          => localStore'[call.post._id].likes = localStore[call.post._id].likes + 1]_vars

C11_OnlineMeansSync ==
    initPc = "done" /\ isOnline =>
        /\ Cardinality(liveSyncs) = 1
        /\ liveSyncs = {syncHandler}

\* After the initialisation the user went offline and online again: the sync
\* that is live is a new one.
C11_Witness ==
    /\ initPc = "done"
    /\ last = "online"
    /\ isOnline
    /\ pending = EmptyBag
    /\ syncHandler = 2
    /\ liveSyncs = {2}

C13_ChangeRefreshesWithoutSearch ==
    [][(\E id \in Ids : SyncChange(id)) =>
          /\ documents' = documents
          /\ searchStatus' = searchStatus
          /\ pending' = IF searchQuery = <<>> THEN Add(pending, AllDocsCall) ELSE pending]_vars

\* A change event has brought a post while a search was displayed: no call is
\* awaited and the displayed result is the one of before.
C13_Witness ==
    /\ last = "change"
    /\ searchQuery = <<"b">>
    /\ searchStatus.kind = "found"
    /\ pending = EmptyBag
    /\ Cardinality(LocalPosts) > Len(documents)

\* What the list shows for the value sq of the search field: the search result
\* if sq is not empty once trimmed, all Posts if it is.
ListFor(sq) ==
    IF Trim(sq) = <<>>
    THEN OnlyPosts(AllDocs(localStore))
    ELSE Find(localStore, Trim(sq))

\* C14: in every state where no asynchronous operation is pending, the
\* displayed list corresponds to the current value of searchQuery (the search
\* result for it, or all Posts if it is empty), for any completion order of
\* overlapping operations.  Stated for the states in which initDatabase is over,
\* the query is one RegExp accepts and a read has just completed, so that the
\* list comes from the database as it is.
C14_ListMatchesQuery ==
    /\ initPc = "done"
    /\ pending = EmptyBag
    /\ last \in {"allDocsDone", "findDone"}
    /\ RegExpValid(Trim(searchQuery))
    => documents = ListFor(searchQuery)

\* C15: searchStatus reports the number of documents displayed: in every state
\* where no call is pending and the status is no error message, the count
\* written in searchStatus is the length of the displayed list, after any
\* sequence of fetch, search, create, like and delete.
C15_StatusCountsDisplayed ==
    /\ pending = EmptyBag
    /\ searchStatus.kind \in {"all", "found"}
    => searchStatus.n = Len(documents)

\* C16: a query that is empty once trimmed (one made of spaces too) means 'no
\* search' everywhere: searchDocuments displays all Posts for it, and with such
\* a value in the field a completed createNewPost or generateMassData and a
\* change event of the replication refresh the list.  So, for a user who waits
\* for each call, whenever initDatabase is over, no call is pending and the
\* field is empty once trimmed, the list shows all Posts of the local database.
C16_BlankQueryShowsAll ==
    /\ initPc = "done"
    /\ pending = EmptyBag
    /\ Trim(searchQuery) = <<>>
    => documents = OnlyPosts(AllDocs(localStore))

====
